---- MODULE Spec2Model ----
(***************************************************************************)
(* Credential and token-lifecycle subsystem of the Prusa Connect client:   *)
(* PrusaConnectCredentials (valid / refresh / before_request) called from  *)
(* up to two threads, the interactive_login flow, the discovery factories  *)
(* (from_env / from_file / load_default) and the pure functions of the     *)
(* token module (dump_tokens, _decode_jwt); and the API client over them:  *)
(* PrusaConnectClient._request, get_printers and get_supported_commands    *)
(* with their caches, and the same methods of PrinterService.              *)
(* Source: src/src/prusa/connect/client/auth.py, sdk.py and                *)
(* services/printers.py                                                    *)
(***************************************************************************)
EXTENDS Integers, Sequences, FiniteSets, TLC

\* ------------------------------------------------------------------ bounds
MaxNow == 1          \* the clock runs over 0..MaxNow seconds
MaxSerial == 2       \* tokens the token endpoint issues in one behaviour
MaxCalls == 2        \* calls of before_request / refresh in one behaviour

\* ------------------------------------------------------- program constants
SKEW == 30           \* datetime.timedelta(seconds=30)
HTTP_OK == 200       \* resp.status_code == 200

Threads == {"t1", "t2"}

\* Optional values (Python None / a value): the empty or the one-element
\* sequence.
NoneVal == <<>>
Some(v) == <<v>>
IsNone(m) == m = <<>>
IsSome(m) == m # <<>>
Get(m) == m[1]

\* ------------------------------------------------------------ token values
\* A compact token string is modelled by the claims its payload segment
\* carries; wellformed = FALSE is a string the claims parser rejects.
RawToken(jti, exp) == [jti |-> jti, exp |-> exp, wellformed |-> TRUE]
Garbage == [jti |-> 0, exp |-> 0, wellformed |-> FALSE]

\* PrusaJwtModel.parse_jwt_string: claims of the raw string plus raw_token.
ParseJwt(raw) == [token_id |-> raw.jti, expires_at |-> raw.exp, raw_token |-> Some(raw)]

\* A token value object built from a claim map has no raw string.
FromClaims(jti, exp) == [token_id |-> jti, expires_at |-> exp, raw_token |-> NoneVal]

FlatKeys == {"access_token", "refresh_token", "id_token", "expires_in",
             "token_type", "scope", "shared_session_key"}

\* " ".join(scope) and str.split(): the flat scope is the words separated by
\* single blanks.
\* A word that is the empty string adds no character to the joined text,
\* and split() yields no empty word.
RECURSIVE JoinScope(_)
JoinScope(words) ==
    LET first == IF words[1] = "" THEN <<>> ELSE <<words[1]>>
    IN  IF Len(words) = 0 THEN <<>>
        ELSE IF Len(words) = 1 THEN first
        ELSE first \o <<" ">> \o JoinScope(Tail(words))

SplitScope(str) == SelectSeq(str, LAMBDA c : c # " " /\ c # "")

\* Restriction of a function to a set of keys.
Restrict(f, S) == [k \in S |-> f[k]]

\* PrusaJWTTokenSet.dump_tokens
dump_tokens(ts) ==
    LET all == [access_token |-> IF IsSome(ts.access_token.raw_token)
                                 THEN Get(ts.access_token.raw_token) ELSE Garbage,
                refresh_token |-> IF IsSome(ts.refresh_token) /\ IsSome(Get(ts.refresh_token).raw_token)
                                  THEN Get(Get(ts.refresh_token).raw_token) ELSE Garbage,
                id_token |-> IF IsSome(ts.identity_token) /\ IsSome(Get(ts.identity_token).raw_token)
                             THEN Get(Get(ts.identity_token).raw_token) ELSE Garbage,
                expires_in |-> IF IsSome(ts.expires_in) THEN Get(ts.expires_in) ELSE 0,
                token_type |-> IF IsSome(ts.token_type) THEN Get(ts.token_type) ELSE "",
                scope |-> JoinScope(ts.scope),
                shared_session_key |-> IF IsSome(ts.shared_session_key)
                                       THEN Get(ts.shared_session_key) ELSE ""]
        keys == {k \in FlatKeys :
                   \/ k = "access_token" /\ IsSome(ts.access_token.raw_token)
                   \/ k = "refresh_token" /\ IsSome(ts.refresh_token)
                                          /\ IsSome(Get(ts.refresh_token).raw_token)
                   \/ k = "id_token" /\ IsSome(ts.identity_token)
                                     /\ IsSome(Get(ts.identity_token).raw_token)
                   \/ k = "expires_in" /\ IsSome(ts.expires_in)
                   \/ k = "token_type" /\ IsSome(ts.token_type)
                   \/ k = "scope" /\ Len(ts.scope) > 0
                   \/ k = "shared_session_key" /\ IsSome(ts.shared_session_key)}
    IN  Restrict(all, keys)

\* dict.update: the keys of new_data overwrite those of current_raw.
DictUpdate(current_raw, new_data) ==
    [k \in DOMAIN current_raw \cup DOMAIN new_data |->
        IF k \in DOMAIN new_data THEN new_data[k] ELSE current_raw[k]]

\* PrusaJWTTokenSet(**data) succeeds iff the mandatory access token is there
\* and every token string in the map parses.
Loadable(data) ==
    /\ "access_token" \in DOMAIN data
    /\ \A k \in {"access_token", "refresh_token", "id_token"} \cap DOMAIN data :
          data[k].wellformed

\* PrusaJWTTokenSet(**data)
PrusaJWTTokenSet(data) ==
    [access_token |-> ParseJwt(data["access_token"]),
     refresh_token |-> IF "refresh_token" \in DOMAIN data
                       THEN Some(ParseJwt(data["refresh_token"])) ELSE NoneVal,
     identity_token |-> IF "id_token" \in DOMAIN data
                        THEN Some(ParseJwt(data["id_token"])) ELSE NoneVal,
     expires_in |-> IF "expires_in" \in DOMAIN data THEN Some(data["expires_in"]) ELSE NoneVal,
     token_type |-> IF "token_type" \in DOMAIN data THEN Some(data["token_type"]) ELSE NoneVal,
     scope |-> IF "scope" \in DOMAIN data THEN SplitScope(data["scope"]) ELSE <<>>,
     shared_session_key |-> IF "shared_session_key" \in DOMAIN data
                            THEN Some(data["shared_session_key"]) ELSE NoneVal]

\* Mutant: the boundary is inclusive.
IsTokenValidInclusive(token, instant) == (token.expires_at - instant) >= SKEW

\* _is_token_valid: strictly more than 30 seconds left.
_is_token_valid(token, instant) == (token.expires_at - instant) > SKEW


\* PrusaConnectCredentials.valid (the access token is mandatory, so the
\* early return of line 225 is never taken)
valid(ts, instant) == _is_token_valid(ts.access_token, instant)

\* f"Bearer {raw_token}"
Bearer(raw) == <<"Bearer", raw>>

\* --------------------------------------------------------------- the state
VARIABLES
    tokens,       \* self.tokens, the Credential's Token Set
    gen,          \* number of times self.tokens has been replaced
    token_saver,  \* TRUE iff a persistence callback is registered
    store,        \* the flat map last written by the persistence callback
    saveFailed,   \* TRUE once a persistence callback has raised
    now,          \* the current instant, in seconds
    serial,       \* tokens issued so far by the token endpoint
    calls,        \* calls started so far
    callers,      \* the threads that call into the Credential
    th,           \* the position and locals of each thread's current call
    lg,           \* the position and locals of the interactive_login invocation
    dv,           \* the discovery sources and the position of the factory call
    fn,           \* the argument and the result of a pure function's call
    cl            \* the API client: its caches and the position of its current call

vars == <<tokens, gen, token_saver, store, saveFailed, now, serial, calls, callers, th, lg,
          dv, fn, cl>>

IdleThread ==
    [pc |-> "idle", op |-> "none", validAtCheck |-> FALSE, genAtCheck |-> 0,
     sent |-> 0, raw_sent |-> NoneVal, resp |-> NoneVal, current_raw |-> NoneVal,
     arg |-> NoneVal, raw_read |-> NoneVal, hdr |-> NoneVal, err |-> "none",
     pre |-> NoneVal, loaded |-> NoneVal, saved |-> 0]

\* The Token Sets a Credential is constructed with (PrusaConnectCredentials
\* __init__ / _load_tokens): from a flat map, or from a Token Set whose
\* refresh token was built from a claim map and has no raw string.
AccessExps == {SKEW, SKEW + 1}

MinimalFlat(aexp) == [access_token |-> RawToken(1, aexp)]

FullFlat(aexp) ==
    [access_token |-> RawToken(1, aexp), id_token |-> RawToken(3, aexp),
     expires_in |-> 300, token_type |-> "Bearer",
     scope |-> <<"read", " ", "write">>, shared_session_key |-> "k"]

WithRefresh(flat, rexp) == DictUpdate(flat, [refresh_token |-> RawToken(2, rexp)])

InitialTokenSets ==
    LET minimal == {MinimalFlat(a) : a \in AccessExps}
        withR == {WithRefresh(FullFlat(a), r) : a \in AccessExps, r \in {SKEW + 1, SKEW + MaxNow + 10}}
        parsed == {PrusaJWTTokenSet(f) : f \in minimal \cup withR}
        noRaw == {[PrusaJWTTokenSet(f) EXCEPT !.refresh_token = Some(FromClaims(2, SKEW + MaxNow + 10))] :
                     f \in minimal}
    IN  parsed \cup noRaw

\* ------------------------------------------------------ discovery sources
\* What a discovery source holds.  A JSON source (PRUSA_TOKENS_JSON, the
\* token file) is absent, empty, not JSON, a JSON value that is not an
\* object, or a JSON object; PRUSA_TOKEN is absent, empty or a string.
Source(kind, data) == [kind |-> kind, data |-> data]

EnvJsonContents ==
    {Source("absent", NoneVal), Source("empty", NoneVal), Source("malformed", NoneVal),
     Source("list", NoneVal),
     Source("dict", Some([token_type |-> "Bearer"])),
     Source("dict", Some(WithRefresh(FullFlat(SKEW), SKEW + MaxNow + 10)))}

EnvTokenContents ==
    {Source("absent", NoneVal), Source("empty", NoneVal),
     Source("text", Some(Garbage)), Source("text", Some(RawToken(1, SKEW + 1)))}

FileContents ==
    {Source("absent", NoneVal), Source("malformed", NoneVal), Source("list", NoneVal),
     Source("dict", Some([access_token |-> Garbage])),
     Source("dict", Some(WithRefresh(MinimalFlat(SKEW), SKEW + MaxNow + 10)))}

DiscoveryOff ==
    [pc |-> "off", op |-> "none", env_json |-> Source("absent", NoneVal),
     env_token |-> Source("absent", NoneVal), file |-> Source("absent", NoneVal),
     consulted |-> <<>>, result |-> NoneVal, err |-> "none"]

\* A factory is called with the environment and the file as they are.
DiscoveryStarts ==
    {[DiscoveryOff EXCEPT !.pc = IF op = "from_file" THEN "file" ELSE "env_json",
                          !.op = op, !.env_json = j, !.env_token = t, !.file = f] :
        op \in {"from_env", "from_file", "load_default"},
        j \in EnvJsonContents, t \in EnvTokenContents, f \in FileContents}

\* ---------------------------------------------- base64, UTF-8 and JSON text
\* Token Sets handed to dump_tokens: those a Credential is constructed with,
\* one whose scope list holds an empty word or ends with one, and one whose
\* access token was built from a claim map and has no raw string.
RoundTripTokenSets ==
    InitialTokenSets
    \cup {[PrusaJWTTokenSet(FullFlat(SKEW)) EXCEPT !.scope = sc] :
             sc \in {<<"">>, <<"read", "">>, <<"read">>}}
    \cup {[PrusaJWTTokenSet(FullFlat(SKEW)) EXCEPT !.access_token = FromClaims(1, SKEW)]}

\* The base64 alphabets: character i + 1 stands for the 6-bit value i.
StdAlphabet ==
    <<"A", "B", "C", "D", "E", "F", "G", "H", "I", "J", "K", "L", "M", "N", "O", "P",
      "Q", "R", "S", "T", "U", "V", "W", "X", "Y", "Z", "a", "b", "c", "d", "e", "f",
      "g", "h", "i", "j", "k", "l", "m", "n", "o", "p", "q", "r", "s", "t", "u", "v",
      "w", "x", "y", "z", "0", "1", "2", "3", "4", "5", "6", "7", "8", "9", "+", "/">>

UrlAlphabet == [i \in 1..64 |-> IF i = 63 THEN "-" ELSE IF i = 64 THEN "_" ELSE StdAlphabet[i]]

\* The 6-bit groups of a byte string, the last group zero-filled.
RECURSIVE Sextets(_)
Sextets(bytes) ==
    IF Len(bytes) = 0 THEN <<>>
    ELSE IF Len(bytes) = 1 THEN <<bytes[1] \div 4, (bytes[1] % 4) * 16>>
    ELSE IF Len(bytes) = 2
         THEN <<bytes[1] \div 4, (bytes[1] % 4) * 16 + bytes[2] \div 16, (bytes[2] % 16) * 4>>
    ELSE <<bytes[1] \div 4, (bytes[1] % 4) * 16 + bytes[2] \div 16,
           (bytes[2] % 16) * 4 + bytes[3] \div 64, bytes[3] % 64>>
         \o Sextets(SubSeq(bytes, 4, Len(bytes)))

\* base64.urlsafe_b64encode(bytes).decode().rstrip("="): how the payload
\* and header segments of a compact token are written.
urlsafe_b64encode_nopad(bytes) ==
    LET six == Sextets(bytes) IN [i \in 1..Len(six) |-> UrlAlphabet[six[i] + 1]]

\* binascii.a2b_base64 without strict mode, as base64.b64decode calls it: a
\* character outside the standard alphabet is passed over, "=" ends the
\* data once the quad is complete, and data left in an open quad is an error.
RECURSIVE a2b_base64(_, _, _, _, _, _)
a2b_base64(str, i, quad_pos, leftchar, pads, out) ==
    IF i > Len(str)
    THEN [ok |-> quad_pos = 0, bytes |-> out]
    ELSE IF str[i] = "="
         THEN IF quad_pos >= 2 /\ quad_pos + pads + 1 >= 4
              THEN [ok |-> TRUE, bytes |-> out]
              ELSE a2b_base64(str, i + 1, quad_pos, leftchar, pads + 1, out)
    ELSE IF \A k \in 1..64 : StdAlphabet[k] # str[i]
         THEN a2b_base64(str, i + 1, quad_pos, leftchar, pads, out)
    ELSE LET this_ch == (CHOOSE k \in 1..64 : StdAlphabet[k] = str[i]) - 1
         IN  IF quad_pos = 0 THEN a2b_base64(str, i + 1, 1, this_ch, 0, out)
             ELSE IF quad_pos = 1
                  THEN a2b_base64(str, i + 1, 2, this_ch % 16, 0,
                                  Append(out, leftchar * 4 + this_ch \div 16))
             ELSE IF quad_pos = 2
                  THEN a2b_base64(str, i + 1, 3, this_ch % 4, 0,
                                  Append(out, leftchar * 16 + this_ch \div 4))
             ELSE a2b_base64(str, i + 1, 0, 0, 0, Append(out, leftchar * 64 + this_ch))

\* base64.b64decode(segment + "==")
b64decode_padded(segment) == a2b_base64(segment \o <<"=", "=">>, 1, 0, 0, 0, <<>>)

\* bytes.decode("utf-8") succeeds: every byte is ASCII or part of a
\* well-formed multi-byte sequence.
Continuation(b) == b >= 128 /\ b <= 191

RECURSIVE IsUtf8(_)
IsUtf8(bytes) ==
    LET n == Len(bytes)
        b == bytes[1]
        rest(k) == IF n > k THEN SubSeq(bytes, k + 1, n) ELSE <<>>
    IN  IF n = 0 THEN TRUE
        ELSE IF b < 128 THEN IsUtf8(rest(1))
        ELSE IF b >= 194 /\ b <= 223
             THEN n >= 2 /\ Continuation(bytes[2]) /\ IsUtf8(rest(2))
        ELSE IF b >= 224 /\ b <= 239
             THEN /\ n >= 3
                  /\ bytes[2] >= (IF b = 224 THEN 160 ELSE 128)
                  /\ bytes[2] <= (IF b = 237 THEN 159 ELSE 191)
                  /\ Continuation(bytes[3])
                  /\ IsUtf8(rest(3))
        ELSE IF b >= 240 /\ b <= 244
             THEN /\ n >= 4
                  /\ bytes[2] >= (IF b = 240 THEN 144 ELSE 128)
                  /\ bytes[2] <= (IF b = 244 THEN 143 ELSE 191)
                  /\ Continuation(bytes[3]) /\ Continuation(bytes[4])
                  /\ IsUtf8(rest(4))
        ELSE FALSE

\* json.dumps of a claim map with the one claim "a": the text {"a": "..."}.
JsonOpen == <<123, 34, 97, 34, 58, 32, 34>>
JsonClose == <<34, 125>>
json_dumps(claims) == JsonOpen \o claims.a \o JsonClose

\* json.loads on such a text: the claim map, or a JSONDecodeError for a text
\* that is cut short or has a control character, a quote or a backslash in
\* the string.
json_loads(text) ==
    LET n == Len(text)
        inner == SubSeq(text, Len(JsonOpen) + 1, n - Len(JsonClose))
    IN  IF /\ n >= Len(JsonOpen) + Len(JsonClose)
           /\ SubSeq(text, 1, Len(JsonOpen)) = JsonOpen
           /\ SubSeq(text, n - Len(JsonClose) + 1, n) = JsonClose
           /\ \A k \in 1..Len(inner) : inner[k] >= 32 /\ inner[k] # 34 /\ inner[k] # 92
        THEN [ok |-> TRUE, claims |-> [a |-> inner]]
        ELSE [ok |-> FALSE, claims |-> [a |-> <<>>]]

\* _decode_jwt, lines 52-62: the header and the payload segments are decoded
\* for the log, then the payload is decoded and parsed.
_decode_jwt(token) ==
    LET header == b64decode_padded(token.header)
        payload == b64decode_padded(token.payload)
    IN  IF ~header.ok THEN [err |-> "binascii.Error", claims |-> NoneVal]
        ELSE IF ~IsUtf8(header.bytes) THEN [err |-> "UnicodeDecodeError", claims |-> NoneVal]
        ELSE IF ~payload.ok THEN [err |-> "binascii.Error", claims |-> NoneVal]
        ELSE IF ~IsUtf8(payload.bytes) THEN [err |-> "UnicodeDecodeError", claims |-> NoneVal]
        ELSE IF ~json_loads(payload.bytes).ok THEN [err |-> "JSONDecodeError", claims |-> NoneVal]
        ELSE [err |-> "none", claims |-> Some(json_loads(payload.bytes).claims)]

\* The claim values of the compact tokens handed to the claims parser:
\* strings of up to MaxClaimLen characters out of "~", "?" and "a".
MaxClaimLen == 4
ClaimChars == {126, 63, 97}
ClaimValues == UNION {[1..n -> ClaimChars] : n \in 0..MaxClaimLen}

\* create_dummy_jwt: a compact token with the claim map as payload.
CompactToken(headerClaims, claims) ==
    [header |-> urlsafe_b64encode_nopad(json_dumps(headerClaims)),
     payload |-> urlsafe_b64encode_nopad(json_dumps(claims)),
     signature |-> <<"signature">>]

FnOff == [pc |-> "off", op |-> "none", input |-> NoneVal, output |-> NoneVal]

FnStarts ==
    {[FnOff EXCEPT !.pc = "call", !.op = "dump_tokens", !.input = Some(ts)] :
        ts \in RoundTripTokenSets}
    \cup {[FnOff EXCEPT !.pc = "call", !.op = "_decode_jwt",
                        !.input = Some([claims |-> [a |-> v],
                                        token |-> CompactToken([a |-> h], [a |-> v])])] :
             v \in ClaimValues, h \in {<<97>>, <<126, 126>>}}

\* ------------------------------------------------------------ API client
\* PrusaConnectClient (sdk.py) and PrinterService (services/printers.py):
\* the printer list and the supported commands of one printer, with their
\* caches.

\* self._cache_ttl, in seconds.
CacheTtl == 1

\* Calls of a client method in one behaviour.
MaxClientCalls == 2

\* An exception: its class and its message.
Err(kind, msg) == [kind |-> kind, msg |-> msg]
NoErr == Err("none", "")

\* A JSON document as the methods look at it: an object with one key whose
\* value is a list, a list, any other JSON value, text that is not JSON, or
\* Python's None.  The item "?" is one that model_validate rejects.
Json(kind, key, items) == [kind |-> kind, key |-> key, items |-> items]
NotJson == Json("not_json", "", <<>>)
JsonNone == Json("none", "", <<>>)
JsonScalar == Json("scalar", "", <<>>)

\* [Model.model_validate(p) for p in items] does not raise.
Validates(items) == \A i \in 1..Len(items) : items[i] # "?"

\* {c.command for c in commands}
CommandNames(commands) == {commands[i] : i \in 1..Len(commands)}

\* The commands a printer must support: sdk.py line 685 and
\* services/printers.py line 123.
RequiredCommands(impl) ==
    IF impl = "sdk" THEN {"STOP_PRINT", "PAUSE_PRINT"} ELSE {"STOP_PRINT"}

\* A cache file: cache_file.exists(), its text and its st_mtime.
File(body, mtime) == [exists |-> TRUE, body |-> body, mtime |-> mtime]
NoFile == [exists |-> FALSE, body |-> NotJson, mtime |-> 0]

\* The modification times of the cache files found at construction: just
\* written, exactly cache_ttl old and older than cache_ttl.
Mtimes == {0, 0 - CacheTtl, 0 - CacheTtl - 1}

\* The JSON bodies the printers endpoint and the commands endpoints answer
\* with.
PrinterBodies ==
    {Json("dict", "printers", l) : l \in {<<>>, <<"p1">>, <<"p1", "p2">>, <<"?">>}}
    \cup {Json("list", "", <<"p2">>), JsonScalar}

CommandBodies ==
    {Json("dict", "commands", l) :
        l \in {<<"STOP_PRINT", "PAUSE_PRINT">>, <<"STOP_PRINT">>, <<>>, <<"?">>}}
    \cup {Json("list", "", <<"STOP_PRINT", "PAUSE_PRINT">>), JsonScalar}

\* The cache files a client may find on disk when it is constructed.
PrinterFiles ==
    {NoFile, File(NotJson, 0), File(Json("list", "", <<"p1">>), 0)}
    \cup {File(Json("dict", "printers", <<"p1">>), m) : m \in Mtimes}

CommandFiles(impl) ==
    {NoFile, File(NotJson, 0)}
    \cup IF impl = "sdk"
         THEN {File(Json("dict", "commands", l), m) :
                  l \in {<<"STOP_PRINT", "PAUSE_PRINT">>, <<"STOP_PRINT">>}, m \in Mtimes}
         ELSE {File(Json("list", "", l), m) :
                  l \in {<<"STOP_PRINT">>, <<>>}, m \in Mtimes}

\* No client exists.
ClientOff ==
    [pc |-> "off", impl |-> "none", method |-> "none", cache_dir |-> FALSE,
     commands_cache |-> NoneVal, cache_file |-> NoFile,
     phase |-> "main", disk |-> "none", commands |-> <<>>, sent |-> 0, ncalls |-> 0,
     e |-> NoErr, result |-> NoneVal, served |-> "none", err |-> NoErr,
     cause |-> "none", last_ok |-> NoneVal, write_failed |-> FALSE]

\* A client after construction (sdk.py lines 100-103, services/printers.py
\* lines 19-24): the in-memory cache is empty, and without cache_dir no
\* cache file is looked at.  Its caller calls one method, once or again.
ClientStart(impl, method, dir, file) ==
    [ClientOff EXCEPT !.pc = "idle", !.impl = impl, !.method = method,
                      !.cache_dir = dir, !.cache_file = file]

ClientStarts(impl) ==
    {ClientStart(impl, "get_printers", TRUE, f) : f \in PrinterFiles}
    \cup {ClientStart(impl, "get_supported_commands", TRUE, f) : f \in CommandFiles(impl)}
    \cup {ClientStart(impl, m, FALSE, NoFile) : m \in {"get_printers", "get_supported_commands"}}

\* The Token Sets of the Credential a PrusaConnectClient is constructed
\* with: one that stays valid and one that must be refreshed at once.
ClientTokenSets ==
    {PrusaJWTTokenSet(MinimalFlat(SKEW + MaxNow + 1)),
     PrusaJWTTokenSet(WithRefresh(FullFlat(SKEW), SKEW + MaxNow + 10))}

LoginOff ==
    [pc |-> "off", verifier |-> "", previous |-> {}, log |-> <<>>, otp_calls |-> 0,
     resp |-> NoneVal, result |-> NoneVal, err |-> "none"]

\* No Credential has been constructed yet: the Credential's fields hold
\* placeholders and no thread calls into it.
NoCredential ==
    /\ tokens = PrusaJWTTokenSet([access_token |-> RawToken(1, SKEW)])
    /\ token_saver = FALSE
    /\ callers = {}

\* Either a Credential exists and its callers run, or none exists yet and
\* one of interactive_login, a discovery factory or a pure function of the
\* token module is called, or a PrusaConnectClient holds the Credential and
\* calls into it, or a PrinterService runs over a client of its own.
Init ==
    /\ gen = 0
    /\ store = NoneVal
    /\ saveFailed = FALSE
    /\ now = 0
    /\ serial = 0
    /\ calls = 0
    /\ th = [t \in Threads |-> IdleThread]
    /\ \/ /\ tokens \in InitialTokenSets
          /\ token_saver \in BOOLEAN
          /\ callers \in {{"t1"}, Threads}
          /\ lg = LoginOff
          /\ dv = DiscoveryOff
          /\ fn = FnOff
          /\ cl = ClientOff
       \/ /\ NoCredential
          /\ \E prev \in {{}, {"v1"}} : lg = [LoginOff EXCEPT !.pc = "start", !.previous = prev]
          /\ dv = DiscoveryOff
          /\ fn = FnOff
          /\ cl = ClientOff
       \/ /\ NoCredential
          /\ lg = LoginOff
          /\ dv \in DiscoveryStarts
          /\ fn = FnOff
          /\ cl = ClientOff
       \/ /\ NoCredential
          /\ lg = LoginOff
          /\ dv = DiscoveryOff
          /\ fn \in FnStarts
          /\ cl = ClientOff
       \/ /\ tokens \in ClientTokenSets
          /\ token_saver = FALSE
          /\ callers = {}
          /\ lg = LoginOff
          /\ dv = DiscoveryOff
          /\ fn = FnOff
          /\ cl \in ClientStarts("sdk")
       \/ /\ NoCredential
          /\ lg = LoginOff
          /\ dv = DiscoveryOff
          /\ fn = FnOff
          /\ cl \in ClientStarts("service")

\* At most one caller: the calls on the Credential do not overlap.
InitSeq == Init /\ callers # Threads

\* ------------------------------------------------------------------ clock
Tick ==
    /\ now < MaxNow
    /\ now' = now + 1
    /\ UNCHANGED <<tokens, gen, token_saver, store, saveFailed, serial, calls, callers, th, lg, dv, fn, cl>>

\* ------------------------------------------------------- entering a call
\* The locals of a call that has just been entered.
EnterCall(op) ==
    [IdleThread EXCEPT !.pc = IF op = "before_request" THEN "br_check" ELSE "rf_check",
                       !.op = op, !.pre = Some(tokens)]

\* A thread whose previous call has returned or raised calls
\* before_request(headers).
CallBeforeRequest(t) ==
    /\ t \in callers
    /\ th[t].pc \in {"idle", "done", "raised"}
    /\ calls < MaxCalls
    /\ calls' = calls + 1
    /\ th' = [th EXCEPT ![t] = EnterCall("before_request")]
    /\ UNCHANGED <<tokens, gen, token_saver, store, saveFailed, now, serial, callers, lg, dv, fn, cl>>

\* A thread whose previous call has returned or raised calls refresh().
CallRefresh(t) ==
    /\ t \in callers
    /\ th[t].pc \in {"idle", "done", "raised"}
    /\ calls < MaxCalls
    /\ calls' = calls + 1
    /\ th' = [th EXCEPT ![t] = EnterCall("refresh")]
    /\ UNCHANGED <<tokens, gen, token_saver, store, saveFailed, now, serial, callers, lg, dv, fn, cl>>

\* Mutant: before_request refreshes whether or not the token is valid.
BrCheckAlwaysRefresh(t) ==
    /\ th[t].pc = "br_check"
    /\ th' = [th EXCEPT ![t].validAtCheck = valid(tokens, now),
                        ![t].genAtCheck = gen,
                        ![t].pc = "rf_check"]
    /\ UNCHANGED <<tokens, gen, token_saver, store, saveFailed, now, serial, calls, callers, lg, dv, fn, cl>>

\* before_request, line 274: if not self.valid: self.refresh()
BrCheck(t) ==
    /\ th[t].pc = "br_check"
    /\ th' = [th EXCEPT ![t].validAtCheck = valid(tokens, now),
                        ![t].genAtCheck = gen,
                        ![t].pc = IF valid(tokens, now) THEN "br_read" ELSE "rf_check"]
    /\ UNCHANGED <<tokens, gen, token_saver, store, saveFailed, now, serial, calls, callers, lg, dv, fn, cl>>

\* refresh, lines 232-237: the refresh token must be present, have a raw
\* string and pass the validity check, else PrusaAuthError.
Refreshable(ts, instant) ==
    /\ IsSome(ts.refresh_token)
    /\ IsSome(Get(ts.refresh_token).raw_token)
    /\ _is_token_valid(Get(ts.refresh_token), instant)

\* Mutant: the refresh token's expiry is not looked at.
RfCheckNoExpiry(t) ==
    /\ th[t].pc = "rf_check"
    /\ LET ok == IsSome(tokens.refresh_token) /\ IsSome(Get(tokens.refresh_token).raw_token)
       IN  th' = [th EXCEPT ![t].pc = IF ok THEN "rf_send" ELSE "raised",
                            ![t].err = IF ok THEN "none" ELSE "PrusaAuthError"]
    /\ UNCHANGED <<tokens, gen, token_saver, store, saveFailed, now, serial, calls, callers, lg, dv, fn, cl>>

RfCheck(t) ==
    /\ th[t].pc = "rf_check"
    /\ th' = [th EXCEPT ![t].pc = IF Refreshable(tokens, now) THEN "rf_send" ELSE "raised",
                        ![t].err = IF Refreshable(tokens, now) THEN "none" ELSE "PrusaAuthError"]
    /\ UNCHANGED <<tokens, gen, token_saver, store, saveFailed, now, serial, calls, callers, lg, dv, fn, cl>>

\* Mutant: the payload carries the refresh raw string the Credential was
\* constructed with.
RfSendConstructed(t) ==
    /\ th[t].pc = "rf_send"
    /\ IsSome(tokens.refresh_token)
    /\ th' = [th EXCEPT ![t].pc = "rf_wait",
                        ![t].sent = @ + 1,
                        ![t].raw_sent = Some(RawToken(2, SKEW + MaxNow + 10))]
    /\ UNCHANGED <<tokens, gen, token_saver, store, saveFailed, now, serial, calls, callers, lg, dv, fn, cl>>

\* refresh, lines 239-246: the payload carries the current refresh raw string
\* and is posted to the token endpoint.
RfSend(t) ==
    /\ th[t].pc = "rf_send"
    /\ IsSome(tokens.refresh_token)
    /\ th' = [th EXCEPT ![t].pc = "rf_wait",
                        ![t].sent = @ + 1,
                        ![t].raw_sent = Get(tokens.refresh_token).raw_token]
    /\ UNCHANGED <<tokens, gen, token_saver, store, saveFailed, now, serial, calls, callers, lg, dv, fn, cl>>

\* The bodies the token endpoint answers a refresh with.
ResponseBodies(n, instant) ==
    LET fresh == [access_token |-> RawToken(10 + n, instant + SKEW + MaxNow + 1)]
        stale == [access_token |-> RawToken(10 + n, instant + SKEW)]
    IN  {fresh,
         DictUpdate(fresh, [refresh_token |-> RawToken(20 + n, instant + SKEW + MaxNow + 10)]),
         DictUpdate(stale, [expires_in |-> 60]),
         [access_token |-> Garbage]}

\* The token endpoint answers the request (session.post returns).
RfRespond(t) ==
    /\ th[t].pc = "rf_wait"
    /\ \/ /\ serial < MaxSerial
          /\ serial' = serial + 1
          /\ \E body \in ResponseBodies(serial + 1, now) :
                th' = [th EXCEPT ![t].pc = "rf_status",
                                 ![t].resp = Some([status_code |-> HTTP_OK, json |-> body])]
       \/ /\ serial' = serial
          /\ th' = [th EXCEPT ![t].pc = "rf_status",
                              ![t].resp = Some([status_code |-> 401, json |-> <<>>])]
    /\ UNCHANGED <<tokens, gen, token_saver, store, saveFailed, now, calls, callers, lg, dv, fn, cl>>

\* session.post raises: connection failure or timeout.
RfTransportError(t) ==
    /\ th[t].pc = "rf_wait"
    /\ th' = [th EXCEPT ![t].pc = "raised", ![t].err = "TransportError"]
    /\ UNCHANGED <<tokens, gen, token_saver, store, saveFailed, now, serial, calls, callers, lg, dv, fn, cl>>

\* Mutant: the response replaces the flat map instead of being merged over it.
RfStatusReplace(t) ==
    /\ th[t].pc = "rf_status"
    /\ IF Get(th[t].resp).status_code = HTTP_OK
       THEN th' = [th EXCEPT ![t].pc = "rf_load", ![t].current_raw = Some(Get(th[t].resp).json)]
       ELSE th' = [th EXCEPT ![t].pc = "raised", ![t].err = "PrusaAuthError"]
    /\ UNCHANGED <<tokens, gen, token_saver, store, saveFailed, now, serial, calls, callers, lg, dv, fn, cl>>

\* Mutant: the status code is not looked at.
RfStatusIgnored(t) ==
    /\ th[t].pc = "rf_status"
    /\ th' = [th EXCEPT ![t].pc = "rf_load",
                        ![t].current_raw = Some(DictUpdate(dump_tokens(tokens),
                                                           Get(th[t].resp).json))]
    /\ UNCHANGED <<tokens, gen, token_saver, store, saveFailed, now, serial, calls, callers, lg, dv, fn, cl>>

\* refresh, lines 248-256 and 265-267: on 200 the response is merged over the
\* flat dump of the current Token Set; otherwise PrusaAuthError.
RfStatus(t) ==
    /\ th[t].pc = "rf_status"
    /\ IF Get(th[t].resp).status_code = HTTP_OK
       THEN th' = [th EXCEPT ![t].pc = "rf_load",
                             ![t].current_raw = Some(DictUpdate(dump_tokens(tokens),
                                                                Get(th[t].resp).json))]
       ELSE th' = [th EXCEPT ![t].pc = "raised", ![t].err = "PrusaAuthError"]
    /\ UNCHANGED <<tokens, gen, token_saver, store, saveFailed, now, serial, calls, callers, lg, dv, fn, cl>>

\* Where refresh() returns to.
AfterRefresh(t) == IF th[t].op = "before_request" THEN "br_read" ELSE "done"

\* refresh, lines 259-262: self._load_tokens(current_raw) replaces the Token
\* Set wholesale, or raises a validation error and leaves it alone.
RfLoad(t) ==
    /\ th[t].pc = "rf_load"
    /\ IF Loadable(Get(th[t].current_raw))
       THEN /\ tokens' = PrusaJWTTokenSet(Get(th[t].current_raw))
            /\ gen' = gen + 1
            /\ th' = [th EXCEPT ![t].pc = IF token_saver THEN "rf_dump" ELSE AfterRefresh(t),
                                ![t].loaded = Some(tokens')]
       ELSE /\ th' = [th EXCEPT ![t].pc = "raised", ![t].err = "ValidationError"]
            /\ UNCHANGED <<tokens, gen, cl>>
    /\ UNCHANGED <<token_saver, store, saveFailed, now, serial, calls, callers, lg, dv, fn, cl>>

\* Mutant: the callback is handed the flat map of the replaced Token Set.
RfDumpStale(t) ==
    /\ th[t].pc = "rf_dump"
    /\ th' = [th EXCEPT ![t].pc = "rf_save", ![t].arg = Some(dump_tokens(Get(th[t].pre)))]
    /\ UNCHANGED <<tokens, gen, token_saver, store, saveFailed, now, serial, calls, callers, lg, dv, fn, cl>>

\* refresh, line 264: the argument self.tokens.dump_tokens() is evaluated.
RfDump(t) ==
    /\ th[t].pc = "rf_dump"
    /\ th' = [th EXCEPT ![t].pc = "rf_save", ![t].arg = Some(dump_tokens(tokens))]
    /\ UNCHANGED <<tokens, gen, token_saver, store, saveFailed, now, serial, calls, callers, lg, dv, fn, cl>>

\* refresh, line 264: self.token_saver(...) runs (save_to_disk, lines
\* 291-300) and writes the store.
RfSave(t) ==
    /\ th[t].pc = "rf_save"
    /\ store' = th[t].arg
    /\ th' = [th EXCEPT ![t].pc = AfterRefresh(t), ![t].saved = @ + 1]
    /\ UNCHANGED <<tokens, gen, token_saver, saveFailed, now, serial, calls, callers, lg, dv, fn, cl>>

\* Mutant: a raising persistence callback rolls the Token Set back.
RfSaveFailsRollback(t) ==
    /\ th[t].pc = "rf_save"
    /\ saveFailed' = TRUE
    /\ tokens' = Get(th[t].pre)
    /\ th' = [th EXCEPT ![t].pc = "raised", ![t].err = "SaverError", ![t].saved = @ + 1]
    /\ UNCHANGED <<gen, token_saver, store, now, serial, calls, callers, lg, dv, fn, cl>>

\* The persistence callback raises (the file cannot be written).
RfSaveFails(t) ==
    /\ th[t].pc = "rf_save"
    /\ saveFailed' = TRUE
    /\ th' = [th EXCEPT ![t].pc = "raised", ![t].err = "SaverError", ![t].saved = @ + 1]
    /\ UNCHANGED <<tokens, gen, token_saver, store, now, serial, calls, callers, lg, dv, fn, cl>>

\* before_request, line 277, right-hand side: the raw string is read.
BrRead(t) ==
    /\ th[t].pc = "br_read"
    /\ th' = [th EXCEPT ![t].pc = "br_write", ![t].raw_read = tokens.access_token.raw_token]
    /\ UNCHANGED <<tokens, gen, token_saver, store, saveFailed, now, serial, calls, callers, lg, dv, fn, cl>>

\* before_request, line 277: headers["Authorization"] = ...
BrWrite(t) ==
    /\ th[t].pc = "br_write"
    /\ th' = [th EXCEPT ![t].pc = "done", ![t].hdr = Some(Bearer(th[t].raw_read))]
    /\ UNCHANGED <<tokens, gen, token_saver, store, saveFailed, now, serial, calls, callers, lg, dv, fn, cl>>

\* ------------------------------------------------------ interactive_login
AUTH_URL == <<"https://account.prusa3d.com", "/o/authorize/">>
TOKEN_URL == <<"https://account.prusa3d.com", "/o/token/">>
CLIENT_ID == "MRHTlZhZqkNrrQ6FUPtjyusAz8nc59ErHXP8XkS4"
REDIRECT_URI == <<"https://connect.prusa3d.com", "/login", "/auth-callback">>

\* A URL string is a sequence of pieces: the origin, the pieces of the path,
\* and after "?" the query as key "=" value joined by "&".
Contains(str, piece) == \E i \in 1..Len(str) : str[i] = piece

IndexOf(str, piece) == IF Contains(str, piece)
                       THEN CHOOSE i \in 1..Len(str) : str[i] = piece /\ \A j \in 1..(i - 1) : str[j] # piece
                       ELSE 0

\* urllib.parse.urlparse(url).path
UrlPath(url) == IF Contains(url, "?") THEN SubSeq(url, 2, IndexOf(url, "?") - 1)
                ELSE SubSeq(url, 2, Len(url))

\* urllib.parse.urlparse(url).query
UrlQuery(url) == IF Contains(url, "?") THEN SubSeq(url, IndexOf(url, "?") + 1, Len(url))
                 ELSE <<>>

\* str.endswith
EndsWith(str, piece) == Len(str) > 0 /\ str[Len(str)] = piece

\* urllib.parse.parse_qs: the values of each key in order; pairs with a blank
\* value are dropped.
RECURSIVE QueryValues(_, _)
QueryValues(query, key) ==
    IF Len(query) < 3 THEN <<>>
    ELSE LET here == IF query[1] = key /\ query[2] = "=" /\ query[3] # "" THEN <<query[3]>> ELSE <<>>
             rest == IF Len(query) > 4 THEN SubSeq(query, 5, Len(query)) ELSE <<>>
         IN  here \o QueryValues(rest, key)

\* _generate_pkce, line 358: the verifier is the text of 32 bytes of
\* os.urandom, a value no other invocation has drawn.
Verifiers == {"v1", "v2"}

\* hashlib.sha256(...).digest()
Sha256(str) == <<"sha256", str>>

\* base64.urlsafe_b64encode of a 32-byte digest: 43 characters and one "=".
B64Url(bytes) == <<"b64url">> \o bytes \o <<"=">>

\* str.rstrip("=")
RECURSIVE RStripPad(_)
RStripPad(str) ==
    IF Len(str) > 0 /\ str[Len(str)] = "=" THEN RStripPad(SubSeq(str, 1, Len(str) - 1))
    ELSE str

\* Mutant: the padding of the challenge is kept.
S256Padded(verifier) == B64Url(Sha256(verifier))

\* _generate_pkce, lines 359-361: the challenge of a verifier.
S256(verifier) == RStripPad(B64Url(Sha256(verifier)))

\* _extract_csrf: the value of the csrfmiddlewaretoken input, or None.
_extract_csrf(text) == text.csrf

\* _extract_next: the unquoted value of the next input, or "".
_extract_next(text) == IF IsSome(text.next) THEN Get(text.next) ELSE ""

\* The one-time-code input's name, or "otp_token".
OtpFieldName(text) == IF IsSome(text.otp_field) THEN Get(text.otp_field) ELSE "otp_token"

Html(csrf, feedback, field) ==
    [csrf |-> csrf, next |-> Some("/o/authorize/"), invalid_feedback |-> feedback, otp_field |-> field]

LoginPageUrl == <<"https://account.prusa3d.com", "/login/", "?", "next", "=", "/o/authorize/">>
TotpPageUrl == <<"https://account.prusa3d.com", "/login/totp/", "?", "next", "=", "/o/authorize/">>
CallbackUrl(query) == REDIRECT_URI \o (IF query = <<>> THEN <<>> ELSE <<"?">> \o query)

\* The URLs the account server can leave the session at after a form POST.
FinalUrls ==
    {CallbackUrl(<<"code", "=", "c1">>),
     CallbackUrl(<<"code", "=", "c1", "&", "code", "=", "c2">>),
     CallbackUrl(<<"state", "=", "s", "&", "code", "=", "c2">>),
     CallbackUrl(<<"code", "=", "">>),
     CallbackUrl(<<"error", "=", "denied">>),
     CallbackUrl(<<>>),
     CallbackUrl(<<"code", "=", "c1", "&", "next", "=", "/login/totp/">>),
     LoginPageUrl,
     LoginPageUrl \o <<"&", "code", "=", "c1">>,
     TotpPageUrl}

\* Responses to the authorization GET.
AuthPages ==
    {[status_code |-> sc, url |-> LoginPageUrl, text |-> Html(c, FALSE, NoneVal)] :
        sc \in {HTTP_OK, 503}, c \in {NoneVal, Some("csrf1")}}

\* Responses to the credential POST and to the OTP POST.
FormPages ==
    {[status_code |-> HTTP_OK, url |-> u, text |-> Html(c, f, o)] :
        u \in FinalUrls, c \in {NoneVal, Some("csrf2")}, f \in BOOLEAN,
        o \in {NoneVal, Some("otp_field_1")}}

\* Responses of the token endpoint to the code exchange.
TokenResponses ==
    {[status_code |-> HTTP_OK, json |-> WithRefresh(FullFlat(SKEW + MaxNow + 1), SKEW + MaxNow + 10)],
     [status_code |-> HTTP_OK, json |-> [access_token |-> Garbage]],
     [status_code |-> HTTP_OK, json |-> [token_type |-> "Bearer"]],
     [status_code |-> 400, json |-> [error |-> "invalid_grant"]]}

LoginRaise(err) == [lg EXCEPT !.pc = "raised", !.err = err]

LoginSend(request, pc) == [lg EXCEPT !.pc = pc, !.log = Append(@, request)]

\* interactive_login, lines 379-396: PKCE material, then the authorization GET.
LoginStart ==
    /\ lg.pc = "start"
    /\ \E v \in Verifiers \ lg.previous :
          lg' = [LoginSend([method |-> "GET", url |-> AUTH_URL, step |-> "authorize",
                            data |-> [response_type |-> "code", client_id |-> CLIENT_ID,
                                      redirect_uri |-> REDIRECT_URI,
                                      code_challenge_method |-> "S256",
                                      code_challenge |-> S256(v)]],
                           "auth_wait") EXCEPT !.verifier = v]
    /\ UNCHANGED <<tokens, gen, token_saver, store, saveFailed, now, serial, calls, callers, th, dv, fn, cl>>

\* A request of the login session raises: connection failure or timeout.
LoginTransportError ==
    /\ lg.pc \in {"auth_wait", "cred_wait", "otp_wait", "token_wait"}
    /\ lg' = LoginRaise("TransportError")
    /\ UNCHANGED <<tokens, gen, token_saver, store, saveFailed, now, serial, calls, callers, th, dv, fn, cl>>

\* Mutant: the status of the login page is not looked at.
LoginAuthPageAnyStatus ==
    /\ lg.pc = "auth_wait"
    /\ \E resp \in AuthPages :
          lg' = [(IF IsNone(_extract_csrf(resp.text)) THEN LoginRaise("PrusaAuthError")
                  ELSE LoginSend([method |-> "POST", url |-> resp.url, step |-> "credentials",
                                  data |-> [csrfmiddlewaretoken |-> _extract_csrf(resp.text),
                                            next |-> _extract_next(resp.text),
                                            email |-> "email", password |-> "password"]],
                                 "cred_wait"))
                 EXCEPT !.resp = Some([to |-> "authorize", r |-> resp])]
    /\ UNCHANGED <<tokens, gen, token_saver, store, saveFailed, now, serial, calls, callers, th, dv, fn, cl>>

\* interactive_login, lines 397-414: the login page is checked and the
\* credentials are posted to the page's URL.
LoginAuthPage ==
    /\ lg.pc = "auth_wait"
    /\ \E resp \in AuthPages :
          lg' = [(IF resp.status_code # HTTP_OK THEN LoginRaise("PrusaAuthError")
                  ELSE IF IsNone(_extract_csrf(resp.text)) THEN LoginRaise("PrusaAuthError")
                  ELSE LoginSend([method |-> "POST", url |-> resp.url, step |-> "credentials",
                                  data |-> [csrfmiddlewaretoken |-> _extract_csrf(resp.text),
                                            next |-> _extract_next(resp.text),
                                            email |-> "email", password |-> "password"]],
                                 "cred_wait"))
                 EXCEPT !.resp = Some([to |-> "authorize", r |-> resp])]
    /\ UNCHANGED <<tokens, gen, token_saver, store, saveFailed, now, serial, calls, callers, th, dv, fn, cl>>

\* Mutant: the path of the final URL is not looked at.
HandleCallbackAnyPath(resp) ==
    IF QueryValues(UrlQuery(resp.url), "code") = <<>> THEN LoginRaise("PrusaAuthError")
    ELSE LoginSend([method |-> "POST", url |-> TOKEN_URL, step |-> "token",
                    data |-> [grant_type |-> "authorization_code", client_id |-> CLIENT_ID,
                              code |-> QueryValues(UrlQuery(resp.url), "code")[1],
                              code_verifier |-> lg.verifier,
                              redirect_uri |-> REDIRECT_URI]],
                   "token_wait")

\* interactive_login, lines 424-445: the callback URL is checked and the
\* authorization code exchanged.
HandleCallback(resp) ==
    IF ~EndsWith(UrlPath(resp.url), "/auth-callback") THEN LoginRaise("PrusaAuthError")
    ELSE IF QueryValues(UrlQuery(resp.url), "code") = <<>> THEN LoginRaise("PrusaAuthError")
    ELSE LoginSend([method |-> "POST", url |-> TOKEN_URL, step |-> "token",
                    data |-> [grant_type |-> "authorization_code", client_id |-> CLIENT_ID,
                              code |-> QueryValues(UrlQuery(resp.url), "code")[1],
                              code_verifier |-> lg.verifier,
                              redirect_uri |-> REDIRECT_URI]],
                   "token_wait")

\* _handle_totp, lines 460-473: the OTP callback is asked for the code, which
\* is posted with the CSRF token of the TOTP page.
_handle_totp(resp) ==
    [LoginSend([method |-> "POST", url |-> resp.url, step |-> "otp",
                data |-> [csrfmiddlewaretoken |-> _extract_csrf(resp.text),
                          next |-> _extract_next(resp.text),
                          field |-> OtpFieldName(resp.text),
                          otp |-> "123456"]],
               "otp_wait") EXCEPT !.otp_calls = @ + 1]

\* interactive_login, lines 416-422: the invalid-feedback marker, then the
\* second-factor branch.
LoginCredResponse ==
    /\ lg.pc = "cred_wait"
    /\ \E resp \in FormPages :
          lg' = [(IF resp.text.invalid_feedback THEN LoginRaise("PrusaAuthError")
                  ELSE IF Contains(resp.url, "/login/totp/") THEN _handle_totp(resp)
                  ELSE HandleCallback(resp))
                 EXCEPT !.resp = Some([to |-> "credentials", r |-> resp])]
    /\ UNCHANGED <<tokens, gen, token_saver, store, saveFailed, now, serial, calls, callers, th, dv, fn, cl>>

\* interactive_login, line 422 onwards: the answer to the OTP POST.
LoginOtpResponse ==
    /\ lg.pc = "otp_wait"
    /\ \E resp \in FormPages :
          lg' = [HandleCallback(resp) EXCEPT !.resp = Some([to |-> "otp", r |-> resp])]
    /\ UNCHANGED <<tokens, gen, token_saver, store, saveFailed, now, serial, calls, callers, th, dv, fn, cl>>

\* interactive_login, lines 447-453: the Token Set is built from a 200 answer.
LoginTokenResponse ==
    /\ lg.pc = "token_wait"
    /\ \E resp \in TokenResponses :
          lg' = [(IF resp.status_code # HTTP_OK THEN LoginRaise("PrusaAuthError")
                  ELSE IF ~Loadable(resp.json) THEN LoginRaise("ValidationError")
                  ELSE [lg EXCEPT !.pc = "done", !.result = Some(PrusaJWTTokenSet(resp.json))])
                 EXCEPT !.resp = Some([to |-> "token", r |-> resp])]
    /\ UNCHANGED <<tokens, gen, token_saver, store, saveFailed, now, serial, calls, callers, th, dv, fn, cl>>

\* ------------------------------------------------------ discovery factories
\* PrusaConnectCredentials.__init__ and _load_tokens on a parsed JSON value:
\* a dict is validated into a Token Set, any other value is stored as it is.
NewCredential(value, saver) ==
    IF value.kind = "dict"
    THEN IF Loadable(Get(value.data))
         THEN [outcome |-> "credential", tokens |-> Some(PrusaJWTTokenSet(Get(value.data))),
               token_saver |-> saver]
         ELSE [outcome |-> "ValidationError", tokens |-> NoneVal, token_saver |-> saver]
    ELSE [outcome |-> "credential", tokens |-> NoneVal, token_saver |-> saver]

\* The factory returns the object built, or the constructor's exception
\* leaves the factory.
DiscoveryEnd(built, source) ==
    IF built.outcome = "credential"
    THEN [dv EXCEPT !.pc = "returned", !.consulted = Append(@, source),
                    !.result = Some([tokens |-> built.tokens, token_saver |-> built.token_saver])]
    ELSE [dv EXCEPT !.pc = "raised", !.consulted = Append(@, source), !.err = built.outcome]

DiscoverySkip(source, pc) == [dv EXCEPT !.pc = pc, !.consulted = Append(@, source)]

\* Mutant: PRUSA_TOKENS_JSON is passed over whatever it holds.
FromEnvTokensJsonSkipped ==
    /\ dv.pc = "env_json"
    /\ dv' = DiscoverySkip("PRUSA_TOKENS_JSON", "env_token")
    /\ UNCHANGED <<tokens, gen, token_saver, store, saveFailed, now, serial, calls, callers, th, lg, fn, cl>>

\* from_env, lines 315-320: PRUSA_TOKENS_JSON.
FromEnvTokensJson ==
    /\ dv.pc = "env_json"
    /\ dv' = IF dv.env_json.kind \in {"absent", "empty", "malformed"}
             THEN DiscoverySkip("PRUSA_TOKENS_JSON", "env_token")
             ELSE DiscoveryEnd(NewCredential(dv.env_json, FALSE), "PRUSA_TOKENS_JSON")
    /\ UNCHANGED <<tokens, gen, token_saver, store, saveFailed, now, serial, calls, callers, th, lg, fn, cl>>

\* from_env, lines 322-330, and load_default, lines 341-342: PRUSA_TOKEN;
\* from_env returns None when neither variable gave a Credential.
FromEnvToken ==
    /\ dv.pc = "env_token"
    /\ dv' = IF dv.env_token.kind = "text" /\ Loadable([access_token |-> Get(dv.env_token.data)])
             THEN DiscoveryEnd(NewCredential(Source("dict", Some([access_token |-> Get(dv.env_token.data)])),
                                             FALSE), "PRUSA_TOKEN")
             ELSE DiscoverySkip("PRUSA_TOKEN", IF dv.op = "from_env" THEN "returned" ELSE "file")
    /\ UNCHANGED <<tokens, gen, token_saver, store, saveFailed, now, serial, calls, callers, th, lg, fn, cl>>

\* Mutant: invalid JSON in the file is not caught.
FromFileMalformedRaises ==
    /\ dv.pc = "file"
    /\ dv' = IF dv.file.kind = "absent" THEN DiscoverySkip("file", "returned")
             ELSE IF dv.file.kind = "malformed"
                  THEN [dv EXCEPT !.pc = "raised", !.consulted = Append(@, "file"),
                                  !.err = "JSONDecodeError"]
             ELSE DiscoveryEnd(NewCredential(dv.file, TRUE), "file")
    /\ UNCHANGED <<tokens, gen, token_saver, store, saveFailed, now, serial, calls, callers, th, lg, fn, cl>>

\* from_file, lines 285-305, called directly or from load_default, lines
\* 345-350: a missing file and invalid JSON give None; otherwise the
\* Credential is built with save_to_disk as its persistence callback.
FromFile ==
    /\ dv.pc = "file"
    /\ dv' = IF dv.file.kind \in {"absent", "malformed"}
             THEN DiscoverySkip("file", "returned")
             ELSE DiscoveryEnd(NewCredential(dv.file, TRUE), "file")
    /\ UNCHANGED <<tokens, gen, token_saver, store, saveFailed, now, serial, calls, callers, th, lg, fn, cl>>

\* The caller keeps the Credential a factory returned and calls into it; the
\* factory's reading of the sources ended with its return.
UseDiscovered ==
    /\ dv.pc = "returned"
    /\ IsSome(dv.result)
    /\ IsSome(Get(dv.result).tokens)
    /\ tokens' = Get(Get(dv.result).tokens)
    /\ token_saver' = Get(dv.result).token_saver
    /\ callers' = {"t1"}
    /\ dv' = [dv EXCEPT !.pc = "in_use", !.env_json = Source("unread", NoneVal),
                        !.env_token = Source("unread", NoneVal),
                        !.file = Source("unread", NoneVal)]
    /\ UNCHANGED <<gen, store, saveFailed, now, serial, calls, th, lg, fn, cl>>

\* ------------------------------------------------- token module functions
\* dump_tokens, the Token Set built again from the flat map, and its dump.
DumpParseDump ==
    /\ fn.pc = "call"
    /\ fn.op = "dump_tokens"
    /\ LET first == dump_tokens(Get(fn.input))
       IN  fn' = [fn EXCEPT !.pc = "done",
                            !.output = Some([first |-> first,
                                             parsed |-> IF Loadable(first)
                                                        THEN Some(PrusaJWTTokenSet(first))
                                                        ELSE NoneVal,
                                             second |-> IF Loadable(first)
                                                        THEN Some(dump_tokens(PrusaJWTTokenSet(first)))
                                                        ELSE NoneVal])]
    /\ UNCHANGED <<tokens, gen, token_saver, store, saveFailed, now, serial, calls, callers, th, lg, dv, cl>>

\* The claims parser is applied to the compact token.
DecodeJwt ==
    /\ fn.pc = "call"
    /\ fn.op = "_decode_jwt"
    /\ fn' = [fn EXCEPT !.pc = "done", !.output = Some(_decode_jwt(Get(fn.input).token))]
    /\ UNCHANGED <<tokens, gen, token_saver, store, saveFailed, now, serial, calls, callers, th, lg, dv, cl>>

\* ------------------------------------------------------------- API client
\* What a call of _request or of a client method ends with.
Return(data) == [kind |-> "return", data |-> data, err |-> NoErr, cause |-> "none"]
Raise(err, cause) == [kind |-> "raise", data |-> JsonNone, err |-> err, cause |-> cause]

Response(status_code, body) == [status_code |-> status_code, body |-> body]

\* The answers of the API to the request in flight.  A 5xx answer is retried
\* by the session's adapter and ends as a transport error.
Responses(c) ==
    IF c.phase = "details"
    THEN {Response(200, JsonScalar), Response(404, JsonNone)}
    ELSE {Response(200, b) : b \in (IF c.method = "get_printers" THEN PrinterBodies
                                    ELSE CommandBodies) \cup {NotJson}}
         \cup {Response(204, JsonNone), Response(401, JsonNone), Response(404, JsonNone)}

\* _request, lines 186-213: the status checks and response.json(), whose
\* JSONDecodeError is a RequestException and is wrapped like one.
_request(resp) ==
    IF resp.status_code \in {401, 403}
    THEN Raise(Err("PrusaAuthError", "Invalid or expired credentials."), "none")
    ELSE IF resp.status_code >= 400
    THEN Raise(Err("PrusaApiError", "Request failed"), "none")
    ELSE IF resp.status_code = 204
    THEN Return(JsonNone)
    ELSE IF resp.body.kind = "not_json"
    THEN Raise(Err("PrusaNetworkError", "Failed to connect to Prusa Connect"), "JSONDecodeError")
    ELSE Return(resp.body)

\* _request, lines 215-217: session.request raised a RequestException.
NetworkError == Raise(Err("PrusaNetworkError", "Failed to connect to Prusa Connect"), "TransportError")

\* time.time() - cache_file.stat().st_mtime
Age(file, instant) == instant - file.mtime

\* The method returns value / raises err.
ClReturn(c, value, served) ==
    [c EXCEPT !.pc = "returned", !.result = Some(value), !.served = served]

ClRaise(c, err, cause) ==
    [c EXCEPT !.pc = "raised", !.err = err, !.cause = cause]

\* get_printers, lines 266-274: the printers of the response data.
ParsePrinters(data) ==
    IF (data.kind = "dict" /\ data.key = "printers") \/ data.kind = "list"
    THEN [ok |-> Validates(data.items), list |-> data.items]
    ELSE [ok |-> TRUE, list |-> <<>>]

\* Mutant: the fallback takes a cache file of any age.
CachedPrintersAnyAge(c, instant) ==
    /\ c.cache_dir
    /\ c.cache_file.exists
    /\ c.cache_file.body.kind = "dict"
    /\ c.cache_file.body.key = "printers"
    /\ Validates(c.cache_file.body.items)

\* get_printers, lines 290-302: the cache file exists, is at most cache_ttl
\* old, holds a JSON object with "printers" and its items validate.
CachedPrinters(c, instant) ==
    /\ c.cache_dir
    /\ c.cache_file.exists
    /\ Age(c.cache_file, instant) <= CacheTtl
    /\ c.cache_file.body.kind = "dict"
    /\ c.cache_file.body.key = "printers"
    /\ Validates(c.cache_file.body.items)

\* get_printers, lines 288-307: except Exception as e, the cached list is
\* returned if it can be used, else e is raised again.
Fallback(c, out, instant) ==
    IF CachedPrinters(c, instant)
    THEN ClReturn([c EXCEPT !.e = out.err], c.cache_file.body.items, "disk")
    ELSE ClRaise([c EXCEPT !.e = out.err], out.err, out.cause)

\* get_printers, lines 263-286: the request has ended with out; written
\* tells whether the cache file could be written (a failure is logged, lines
\* 283-284, and leaves the file as it was).
GetPrintersEnd(c, out, written, instant) ==
    IF out.kind = "raise"
    THEN Fallback(c, out, instant)
    ELSE LET parsed == ParsePrinters(out.data)
         IN  IF ~parsed.ok
             THEN Fallback(c, Raise(Err("ValidationError", "Printer"), "none"), instant)
             ELSE ClReturn([c EXCEPT !.cache_file =
                                        IF c.cache_dir /\ parsed.list # <<>> /\ written
                                        THEN File(Json("dict", "printers", parsed.list), instant)
                                        ELSE @,
                                     !.last_ok = Some(parsed.list),
                                     !.write_failed =
                                        @ \/ (c.cache_dir /\ parsed.list # <<>> /\ ~written)],
                           parsed.list, "network")

\* get_supported_commands: the commands of the response data.  sdk.py line
\* 669 validates a SupportedCommandsResponse; services/printers.py lines
\* 101-111 take the first list of an object, a list, or nothing.
ParseCommands(impl, data) ==
    IF impl = "sdk"
    THEN [ok |-> data.kind = "dict" /\ data.key = "commands" /\ Validates(data.items),
          list |-> data.items]
    ELSE LET raw_cmds == IF data.kind \in {"dict", "list"} THEN data.items ELSE <<>>
         IN  [ok |-> Validates(raw_cmds), list |-> raw_cmds]

\* The commands of the cache file's text: sdk.py lines 655-656,
\* services/printers.py lines 94-95 (a list of command definitions).
LoadCommands(impl, body) ==
    IF impl = "sdk"
    THEN ParseCommands("sdk", body)
    ELSE [ok |-> body.kind = "list" /\ Validates(body.items), list |-> body.items]

\* get_supported_commands, step 2: sdk.py lines 646-663 test the age of the
\* file before reading it, services/printers.py lines 89-98 do not test it.
DiskCheck(c, instant) ==
    IF ~c.cache_dir THEN "disabled"
    ELSE IF ~c.cache_file.exists THEN "absent"
    ELSE IF c.impl = "sdk" /\ Age(c.cache_file, instant) > CacheTtl THEN "expired"
    ELSE IF LoadCommands(c.impl, c.cache_file.body).ok THEN "hit"
    ELSE "corrupt"

\* get_supported_commands, steps 3-5 (sdk.py lines 666-688,
\* services/printers.py lines 101-127): the data is parsed, kept in memory
\* and on disk, and only then tested against the required commands.
GetSupportedCommandsEnd(c, out, written, instant) ==
    IF out.kind = "raise"
    THEN ClRaise(c, out.err, out.cause)
    ELSE LET parsed == ParseCommands(c.impl, out.data)
             stored == [c EXCEPT !.commands_cache = Some(parsed.list),
                                 !.commands = parsed.list,
                                 !.cache_file =
                                     IF c.cache_dir /\ written
                                     THEN File(IF c.impl = "sdk" THEN out.data
                                               ELSE Json("list", "", parsed.list), instant)
                                     ELSE @,
                                 !.write_failed = @ \/ (c.cache_dir /\ ~written)]
         IN  IF ~parsed.ok
             THEN ClRaise(c, Err("ValidationError", "CommandDefinition"), "none")
             ELSE IF RequiredCommands(c.impl) \subseteq CommandNames(parsed.list)
             THEN ClReturn(stored, parsed.list, "network")
             ELSE [stored EXCEPT !.pc = "report"]

\* The request in flight has ended with out.  The request for the printer's
\* details (sdk.py lines 697-733, services/printers.py lines 127-144) only
\* feeds the report; PrusaCompatibilityError follows whatever it ends with.
RequestEnd(c, out, written, instant) ==
    IF c.phase = "details"
    THEN ClRaise(c, Err("PrusaCompatibilityError", "missing required commands"), "none")
    ELSE IF c.method = "get_printers"
    THEN GetPrintersEnd(c, out, written, instant)
    ELSE GetSupportedCommandsEnd(c, out, written, instant)

\* The locals of a method call that has just been entered.
NewCall(c) ==
    [c EXCEPT !.ncalls = @ + 1, !.phase = "main", !.disk = "none", !.commands = <<>>,
              !.sent = 0, !.e = NoErr, !.result = NoneVal, !.served = "none",
              !.err = NoErr, !.cause = "none"]

\* _request is entered: PrusaConnectClient calls before_request of its
\* Credential (sdk.py line 165, before the try block); the client behind a
\* PrinterService sends the request.
StartRequest(c) ==
    /\ cl' = IF c.impl = "sdk" THEN [c EXCEPT !.pc = "before_request"]
             ELSE [c EXCEPT !.pc = "wait", !.sent = @ + 1]
    /\ th' = IF c.impl = "sdk" THEN [th EXCEPT !["t1"] = EnterCall("before_request")]
             ELSE th

\* The caller calls get_printers() / list_printers().
GetPrinters ==
    /\ cl.method = "get_printers"
    /\ cl.pc \in {"idle", "returned", "raised"}
    /\ cl.ncalls < MaxClientCalls
    /\ StartRequest(NewCall(cl))
    /\ UNCHANGED <<tokens, gen, token_saver, store, saveFailed, now, serial, calls, callers, lg, dv, fn>>

\* The caller calls get_supported_commands(uuid): the in-memory cache, then
\* the cache file, then the network (sdk.py lines 642-666,
\* services/printers.py lines 86-101).
GetSupportedCommands ==
    /\ cl.method = "get_supported_commands"
    /\ cl.pc \in {"idle", "returned", "raised"}
    /\ cl.ncalls < MaxClientCalls
    /\ LET c == NewCall(cl)
           check == DiskCheck(c, now)
           cmds == LoadCommands(c.impl, c.cache_file.body).list
       IN  IF IsSome(c.commands_cache)
           THEN /\ cl' = ClReturn(c, Get(c.commands_cache), "memory")
                /\ th' = th
           ELSE IF check = "hit"
           THEN /\ cl' = ClReturn([c EXCEPT !.disk = check, !.commands_cache = Some(cmds)],
                                  cmds, "disk")
                /\ th' = th
           ELSE StartRequest([c EXCEPT !.disk = check])
    /\ UNCHANGED <<tokens, gen, token_saver, store, saveFailed, now, serial, calls, callers, lg, dv, fn>>

\* The printer's details are fetched for the report of the missing commands.
GetPrinterForReport ==
    /\ cl.pc = "report"
    /\ StartRequest([cl EXCEPT !.phase = "details"])
    /\ UNCHANGED <<tokens, gen, token_saver, store, saveFailed, now, serial, calls, callers, lg, dv, fn>>

\* _request, line 165: before_request has raised; the call stands before the
\* try block, so its exception leaves _request as it is.
BeforeRequestRaised ==
    /\ cl.pc = "before_request"
    /\ th["t1"].pc = "raised"
    /\ cl' = RequestEnd(cl, Raise(Err(th["t1"].err, "before_request"), "none"), TRUE, now)
    /\ UNCHANGED <<tokens, gen, token_saver, store, saveFailed, now, serial, calls, callers, th, lg, dv, fn>>

\* _request, line 174: before_request has returned and the request is sent.
SendRequest ==
    /\ cl.pc = "before_request"
    /\ th["t1"].pc = "done"
    /\ cl' = [cl EXCEPT !.pc = "wait", !.sent = @ + 1]
    /\ UNCHANGED <<tokens, gen, token_saver, store, saveFailed, now, serial, calls, callers, th, lg, dv, fn>>

\* The API answers, and the method runs to its end.
ApiRespond ==
    /\ cl.pc = "wait"
    /\ \E resp \in Responses(cl), written \in BOOLEAN :
          cl' = RequestEnd(cl, _request(resp), written, now)
    /\ UNCHANGED <<tokens, gen, token_saver, store, saveFailed, now, serial, calls, callers, th, lg, dv, fn>>

\* session.request raises: connection failure, timeout or retries used up.
ApiTransportError ==
    /\ cl.pc = "wait"
    /\ cl' = RequestEnd(cl, NetworkError, TRUE, now)
    /\ UNCHANGED <<tokens, gen, token_saver, store, saveFailed, now, serial, calls, callers, th, lg, dv, fn>>

Next ==
    \/ GetPrinters
    \/ GetSupportedCommands
    \/ GetPrinterForReport
    \/ BeforeRequestRaised
    \/ SendRequest
    \/ ApiRespond
    \/ ApiTransportError
    \/ DumpParseDump
    \/ DecodeJwt
    \/ FromEnvTokensJson
    \/ FromEnvToken
    \/ FromFile
    \/ UseDiscovered
    \/ LoginStart
    \/ LoginTransportError
    \/ LoginAuthPage
    \/ LoginCredResponse
    \/ LoginOtpResponse
    \/ LoginTokenResponse
    \/ Tick
    \/ \E t \in Threads : CallBeforeRequest(t)
    \/ \E t \in Threads : CallRefresh(t)
    \/ \E t \in Threads : BrCheck(t)
    \/ \E t \in Threads : RfCheck(t)
    \/ \E t \in Threads : RfSend(t)
    \/ \E t \in Threads : RfRespond(t)
    \/ \E t \in Threads : RfTransportError(t)
    \/ \E t \in Threads : RfStatus(t)
    \/ \E t \in Threads : RfLoad(t)
    \/ \E t \in Threads : RfDump(t)
    \/ \E t \in Threads : RfSave(t)
    \/ \E t \in Threads : RfSaveFails(t)
    \/ \E t \in Threads : BrRead(t)
    \/ \E t \in Threads : BrWrite(t)

Spec == Init /\ [][Next]_vars

SpecSeq == InitSeq /\ [][Next]_vars

\* ================================================================ claims
Finished(t) == th[t].pc \in {"idle", "done", "raised"}

\* C1: one before_request sends no refresh request if the access token was
\* valid at its check and exactly one, answered and applied before the header
\* is written, if it was not; the header written is "Bearer " plus the raw
\* string of the Credential's current access token.
C1_BeforeRequestRefreshesOnce ==
    \A t \in Threads : th[t].op = "before_request" =>
        /\ th[t].sent <= 1
        /\ th[t].validAtCheck => th[t].sent = 0
        /\ IsSome(th[t].hdr) => th[t].pc = "done"
        /\ th[t].pc = "done" =>
              /\ th[t].sent = IF th[t].validAtCheck THEN 0 ELSE 1
              /\ ~th[t].validAtCheck => IsSome(th[t].resp) /\ IsSome(th[t].loaded)
              /\ th[t].hdr = Some(Bearer(tokens.access_token.raw_token))

C1_Witness ==
    \E t \in Threads : /\ th[t].op = "before_request" /\ th[t].pc = "done"
                       /\ ~th[t].validAtCheck /\ th[t].sent = 1 /\ IsSome(th[t].hdr)

\* C2: concurrent before_request callers that found the same Token Set
\* expired send one refresh request between them, not one each.
C2_OneRefreshPerExpiry ==
    \A t1, t2 \in Threads :
        (/\ t1 # t2
         /\ th[t1].op = "before_request" /\ th[t2].op = "before_request"
         /\ th[t1].err = "none" /\ th[t2].err = "none"
         /\ th[t1].genAtCheck = th[t2].genAtCheck)
        => ~(th[t1].sent >= 1 /\ th[t2].sent >= 1)

\* C3: a before_request never writes an Authorization header carrying an
\* access token that a refresh has already replaced.
C3_NoStaleHeader ==
    [][\A t \in Threads :
          (th[t].pc = "br_write" /\ th'[t].pc = "done")
          => th'[t].hdr = Some(Bearer(tokens.access_token.raw_token))]_vars

\* C4: once every call has completed, the flat map last written by the
\* persistence callback is the dump of the in-memory Token Set.
C4_StoreMatchesMemory ==
    ((\A t \in Threads : Finished(t)) /\ token_saver /\ IsSome(store) /\ ~saveFailed)
    => Get(store) = dump_tokens(tokens)

\* C5: the persistence callback runs only after the Token Set has been
\* replaced, with the flat dump of the new Token Set, once per successful
\* refresh.
C5_SaverAfterApply ==
    \A t \in Threads :
        /\ th[t].saved <= 1
        /\ IsNone(th[t].loaded) => th[t].saved = 0 /\ th[t].pc # "rf_save"
        /\ (th[t].pc = "rf_save" \/ th[t].saved = 1) =>
              /\ tokens = Get(th[t].loaded)
              /\ th[t].arg = Some(dump_tokens(tokens))
        /\ (th[t].saved = 1 /\ th[t].err = "none") => store = Some(dump_tokens(tokens))
        /\ (IsSome(th[t].loaded) /\ th[t].pc \in {"br_read", "br_write", "done"}) =>
              th[t].saved = IF token_saver THEN 1 ELSE 0

C5_Witness ==
    \E t \in Threads : /\ th[t].pc = "done" /\ th[t].saved = 1 /\ th[t].err = "none"
                       /\ store = Some(dump_tokens(tokens)) /\ gen = 2

\* C6: a successful refresh takes the access token from the response and
\* keeps the refresh token, and every other persisted field, that the
\* response omits.
C6_RefreshMerges ==
    \A t \in Threads : IsSome(th[t].loaded) =>
        LET body == Get(th[t].resp).json
            old == Get(th[t].pre)
            oldFlat == dump_tokens(old)
            newFlat == dump_tokens(tokens)
        IN  /\ tokens.access_token.raw_token = Some(body["access_token"])
            /\ "refresh_token" \notin DOMAIN body =>
                  /\ IsSome(tokens.refresh_token)
                  /\ Get(tokens.refresh_token).raw_token = Get(old.refresh_token).raw_token
            /\ \A k \in DOMAIN oldFlat \ DOMAIN body :
                  k \in DOMAIN newFlat /\ newFlat[k] = oldFlat[k]

C6_Witness ==
    \E t \in Threads : /\ IsSome(th[t].loaded) /\ th[t].pc = "done"
                       /\ "refresh_token" \notin DOMAIN Get(th[t].resp).json
                       /\ IsSome(tokens.refresh_token)
                       /\ {"id_token", "scope", "token_type"} \subseteq DOMAIN dump_tokens(tokens)

\* C7: a refresh answered with a non-200 status, or failing in transport,
\* raises, leaves the Token Set as it was and does not run the persistence
\* callback.
C7_FailedRefreshKeepsTokens ==
    \A t \in Threads :
        (\/ th[t].err = "TransportError"
         \/ IsSome(th[t].resp) /\ Get(th[t].resp).status_code # 200 /\ th[t].pc # "rf_status")
        => /\ th[t].pc = "raised"
           /\ th[t].err \in {"TransportError", "PrusaAuthError"}
           /\ tokens = Get(th[t].pre)
           /\ IsNone(th[t].loaded)
           /\ th[t].saved = 0
           /\ IsNone(th[t].hdr)

C7_Witness ==
    \E t \in Threads : /\ th[t].pc = "raised" /\ IsSome(th[t].resp)
                       /\ Get(th[t].resp).status_code = 401 /\ token_saver

\* C8: refresh() without a refresh token, without its raw string, or with one
\* expiring within 30 seconds raises the authentication error and neither
\* sends a request, nor changes the Token Set, nor runs the callback.
NoUsableRefreshToken ==
    \/ IsNone(tokens.refresh_token)
    \/ IsNone(Get(tokens.refresh_token).raw_token)
    \/ Get(tokens.refresh_token).expires_at - now <= 30

C8_UnrefreshableRaises ==
    [][\A t \in Threads :
          (th[t].pc = "rf_check" /\ th'[t] # th[t] /\ NoUsableRefreshToken)
          => /\ th'[t].pc = "raised" /\ th'[t].err = "PrusaAuthError"
             /\ th'[t].sent = 0 /\ th'[t].saved = 0
             /\ tokens' = tokens /\ store' = store]_vars

C8_Witness ==
    \E t \in Threads : /\ th[t].pc = "raised" /\ th[t].err = "PrusaAuthError"
                       /\ IsNone(th[t].resp) /\ th[t].sent = 0
                       /\ IsSome(tokens.refresh_token)
                       /\ IsSome(Get(tokens.refresh_token).raw_token)
                       /\ Get(tokens.refresh_token).expires_at - now = 30

\* C9: the access token counts as valid iff strictly more than 30 seconds
\* are left (31 yes; 30 and 29 no), and refresh() tests the refresh token the
\* same way.
C9_StrictSkew ==
    [][\A t \in Threads :
          /\ (th[t].pc = "br_check" /\ th'[t].pc # "br_check") =>
                /\ th'[t].validAtCheck <=> (tokens.access_token.expires_at - now > 30)
                /\ th'[t].pc = IF tokens.access_token.expires_at - now > 30
                               THEN "br_read" ELSE "rf_check"
          /\ (/\ th[t].pc = "rf_check" /\ th'[t].pc # "rf_check"
              /\ IsSome(tokens.refresh_token)
              /\ IsSome(Get(tokens.refresh_token).raw_token)) =>
                (th'[t].pc = "rf_send" <=> Get(tokens.refresh_token).expires_at - now > 30)]_vars

C9_Witness ==
    \E t \in Threads : /\ th[t].op = "before_request" /\ th[t].pc = "rf_check"
                       /\ ~th[t].validAtCheck
                       /\ tokens.access_token.expires_at - now = 30

\* C10: interactive_login sends each of its requests at most once and in the
\* order authorization GET, credential POST, OTP POST, token POST; a failed
\* step raises the login error, nothing is sent after it and no Token Set is
\* returned; a Token Set is returned only after a 200 token response.
StepRank(step) ==
    CASE step = "authorize" -> 1 [] step = "credentials" -> 2
      [] step = "otp" -> 3 [] step = "token" -> 4

LastStep == IF lg.log = <<>> THEN "none" ELSE lg.log[Len(lg.log)].step

CallbackHasCode(url) ==
    /\ EndsWith(UrlPath(url), "/auth-callback")
    /\ QueryValues(UrlQuery(url), "code") # <<>>

StepFailed ==
    /\ IsSome(lg.resp)
    /\ LET to == Get(lg.resp).to
           r == Get(lg.resp).r
       IN  \/ to = "authorize" /\ (r.status_code # 200 \/ IsNone(r.text.csrf))
           \/ to = "credentials" /\ r.text.invalid_feedback
           \/ to = "credentials" /\ ~Contains(r.url, "/login/totp/") /\ ~CallbackHasCode(r.url)
           \/ to = "otp" /\ ~CallbackHasCode(r.url)
           \/ to = "token" /\ r.status_code # 200

C10_LoginState ==
    /\ \A i, j \in 1..Len(lg.log) : i < j => StepRank(lg.log[i].step) < StepRank(lg.log[j].step)
    /\ lg.log # <<>> => lg.log[1].step = "authorize"
    /\ \A i \in 2..Len(lg.log) :
          /\ lg.log[i].step = "credentials" => lg.log[i - 1].step = "authorize"
          /\ lg.log[i].step = "otp" => lg.log[i - 1].step = "credentials"
          /\ lg.log[i].step = "token" => lg.log[i - 1].step \in {"credentials", "otp"}
    /\ StepFailed => /\ lg.pc = "raised" /\ lg.err = "PrusaAuthError"
                     /\ LastStep = Get(lg.resp).to
                     /\ IsNone(lg.result)
    /\ lg.pc = "raised" => IsNone(lg.result)
    /\ IsSome(lg.result) => /\ lg.pc = "done" /\ LastStep = "token"
                            /\ Get(lg.resp).to = "token"
                            /\ Get(lg.resp).r.status_code = 200

C10_LoginNoRetry ==
    [](C10_LoginState) /\ [][lg.pc \in {"raised", "done"} => lg' = lg]_vars

C10_Witness ==
    /\ lg.pc = "done" /\ IsSome(lg.result) /\ Len(lg.log) = 4

\* C11: the OTP callback is invoked once if the path of the URL reached by
\* the credential POST contains "/login/totp/", and not at all otherwise
\* (stated for answers without the invalid-feedback marker).
C11_OtpIffTotpPath ==
    /\ lg.otp_calls <= 1
    /\ (/\ IsSome(lg.resp) /\ Get(lg.resp).to = "credentials"
        /\ ~Get(lg.resp).r.text.invalid_feedback)
       => (lg.otp_calls = 1 <=> Contains(UrlPath(Get(lg.resp).r.url), "/login/totp/"))

\* C12: an answer to the credential POST that matches the TOTP path condition
\* leads to the OTP step also when its body carries the invalid-feedback
\* marker.
C12_TotpBeforeInvalidFeedback ==
    (/\ IsSome(lg.resp) /\ Get(lg.resp).to = "credentials"
     /\ Contains(UrlPath(Get(lg.resp).r.url), "/login/totp/")
     /\ Get(lg.resp).r.text.invalid_feedback)
    => (lg.pc = "otp_wait" /\ lg.otp_calls = 1)

\* C13: the token-exchange POST is sent only after a final answer whose path
\* ends with "/auth-callback" and whose query has a code parameter, and it
\* sends that parameter's value; any other final answer raises the login
\* error and no token-exchange request is sent.
HasCodeParam(url) ==
    \E i \in 1..Len(UrlQuery(url)) :
        /\ UrlQuery(url)[i] = "code"
        /\ i < Len(UrlQuery(url)) /\ UrlQuery(url)[i + 1] = "="
        /\ (i = 1 \/ UrlQuery(url)[i - 1] = "&")

CodeParamValues(url) ==
    {UrlQuery(url)[i + 2] : i \in {j \in 1..(Len(UrlQuery(url)) - 2) :
                                     /\ UrlQuery(url)[j] = "code" /\ UrlQuery(url)[j + 1] = "="
                                     /\ (j = 1 \/ UrlQuery(url)[j - 1] = "&")}}

\* The answer is a final one: the flow did not go on to the OTP step.
IsFinalAnswer ==
    /\ IsSome(lg.resp)
    /\ \/ Get(lg.resp).to = "otp"
       \/ Get(lg.resp).to = "credentials" /\ LastStep # "otp"
                                          /\ ~Get(lg.resp).r.text.invalid_feedback

C13_TokenPostOnlyWithCode ==
    /\ lg.pc = "token_wait" =>
          /\ IsFinalAnswer
          /\ EndsWith(UrlPath(Get(lg.resp).r.url), "/auth-callback")
          /\ HasCodeParam(Get(lg.resp).r.url)
          /\ lg.log[Len(lg.log)].step = "token"
          /\ lg.log[Len(lg.log)].data.code \in CodeParamValues(Get(lg.resp).r.url)
          /\ Cardinality(CodeParamValues(Get(lg.resp).r.url)) = 1 =>
                {lg.log[Len(lg.log)].data.code} = CodeParamValues(Get(lg.resp).r.url)
    /\ (\E i \in 1..Len(lg.log) : lg.log[i].step = "token") =>
          lg.pc = "token_wait" \/ (IsSome(lg.resp) /\ Get(lg.resp).to = "token")
                               \/ lg.err = "TransportError"
    /\ (/\ IsFinalAnswer
        /\ ~(/\ EndsWith(UrlPath(Get(lg.resp).r.url), "/auth-callback")
             /\ HasCodeParam(Get(lg.resp).r.url))) =>
          /\ lg.pc = "raised" /\ lg.err = "PrusaAuthError"
          /\ \A i \in 1..Len(lg.log) : lg.log[i].step # "token"

C13_Witness ==
    /\ lg.pc = "token_wait" /\ Get(lg.resp).to = "otp"
    /\ lg.log[Len(lg.log)].data.code = "c2"

SourceOrder == <<"PRUSA_TOKENS_JSON", "PRUSA_TOKEN", "file">>

IsPrefix(a, b) == Len(a) <= Len(b) /\ a = SubSeq(b, 1, Len(a))

\* A source holds a Token Set with a parseable access token.
ValidJson(content) == content.kind = "dict" /\ Loadable(Get(content.data))
ValidToken(content) == content.kind = "text" /\ Get(content.data).wellformed

Returned == dv.pc = "returned"

ResultTokens == Get(dv.result).tokens

\* C15: load_default consults PRUSA_TOKENS_JSON, PRUSA_TOKEN and the file in
\* this order; a valid environment source gives the Credential returned even
\* when the file is valid too, and the file is consulted, and gives the
\* Credential, only when no environment source gave one.
C15_EnvBeforeFile ==
    dv.op = "load_default" =>
        /\ IsPrefix(dv.consulted, SourceOrder)
        /\ "file" \in {dv.consulted[i] : i \in 1..Len(dv.consulted)} =>
              ~ValidJson(dv.env_json) /\ ~ValidToken(dv.env_token)
        /\ (Returned /\ ValidJson(dv.env_json)) =>
              /\ IsSome(dv.result)
              /\ ResultTokens = Some(PrusaJWTTokenSet(Get(dv.env_json.data)))
              /\ dv.consulted = <<"PRUSA_TOKENS_JSON">>
        /\ (Returned /\ dv.env_json.kind \in {"absent", "empty", "malformed"}
                     /\ ValidToken(dv.env_token)) =>
              /\ IsSome(dv.result)
              /\ ResultTokens = Some(PrusaJWTTokenSet([access_token |-> Get(dv.env_token.data)]))
              /\ dv.consulted = <<"PRUSA_TOKENS_JSON", "PRUSA_TOKEN">>
        /\ (Returned /\ dv.consulted = SourceOrder /\ ValidJson(dv.file)) =>
              /\ IsSome(dv.result)
              /\ ResultTokens = Some(PrusaJWTTokenSet(Get(dv.file.data)))
        /\ (Returned /\ IsNone(dv.result)) =>
              ~ValidJson(dv.env_json) /\ ~ValidToken(dv.env_token) /\ ~ValidJson(dv.file)

C15_Witness ==
    /\ dv.op = "load_default"
    /\ dv.pc = "returned"
    /\ ValidJson(dv.env_json) /\ ValidToken(dv.env_token) /\ ValidJson(dv.file)
    /\ ResultTokens = Some(PrusaJWTTokenSet(Get(dv.env_json.data)))
    /\ ResultTokens # Some(PrusaJWTTokenSet(Get(dv.file.data)))

\* C16: from_file returns None without raising for a missing file and for a
\* file that is not JSON; PRUSA_TOKENS_JSON that is not JSON is passed over,
\* PRUSA_TOKEN is consulted next and, in load_default, the file after it.
C16_MalformedIsNotFound ==
    /\ (dv.op = "from_file" /\ dv.file.kind \in {"absent", "malformed"} /\ dv.pc # "file") =>
          dv.pc = "returned" /\ IsNone(dv.result) /\ dv.err = "none"
    /\ (dv.op \in {"from_env", "load_default"} /\ dv.env_json.kind = "malformed"
                                                /\ dv.pc # "env_json") =>
          /\ dv.err # "JSONDecodeError"
          /\ dv.consulted[1] = "PRUSA_TOKENS_JSON"
          /\ dv.pc # "env_token" => dv.consulted[2] = "PRUSA_TOKEN"
          /\ (dv.pc # "env_token" /\ ValidToken(dv.env_token)) =>
                /\ Returned
                /\ ResultTokens = Some(PrusaJWTTokenSet([access_token |-> Get(dv.env_token.data)]))
          /\ (dv.op = "load_default" /\ dv.pc \notin {"env_token", "file"}
                                     /\ ~ValidToken(dv.env_token)) =>
                /\ dv.consulted = SourceOrder
                /\ dv.file.kind \in {"absent", "malformed"} =>
                      dv.pc = "returned" /\ IsNone(dv.result) /\ dv.err = "none"
                /\ ValidJson(dv.file) =>
                      Returned /\ ResultTokens = Some(PrusaJWTTokenSet(Get(dv.file.data)))

C16_Witness ==
    /\ dv.op = "load_default"
    /\ dv.pc = "returned"
    /\ dv.env_json.kind = "malformed"
    /\ dv.env_token.kind = "text" /\ ~ValidToken(dv.env_token)
    /\ dv.file.kind = "malformed"
    /\ dv.consulted = SourceOrder
    /\ IsNone(dv.result)

\* C17: whatever the three sources hold, a factory never raises, and a
\* Credential it returns holds a Token Set with a parseable access token.
C17_FactoriesNeverRaise ==
    /\ dv.pc # "raised"
    /\ (Returned /\ IsSome(dv.result)) => IsSome(ResultTokens)

\* C18: every Credential a factory returns has a persistence callback, and
\* after a successful refresh of it the store holds the flat dump of its
\* Token Set.
C18_DiscoveredPersists ==
    /\ (Returned /\ IsSome(dv.result) /\ IsSome(ResultTokens)) => Get(dv.result).token_saver
    /\ dv.pc = "in_use" =>
          \A t \in Threads :
              (IsSome(th[t].loaded) /\ th[t].pc \in {"br_read", "br_write", "done"})
              => store = Some(dump_tokens(tokens))

\* C19: the flat map dumped from a Token Set parses, and the Token Set
\* parsed from it dumps to the same flat map, component by component.
C19_DumpRoundTrip ==
    (fn.op = "dump_tokens" /\ fn.pc = "done") =>
        /\ IsSome(Get(fn.output).second)
        /\ Get(Get(fn.output).second) = Get(fn.output).first

\* C20: the claims parser returns the claim map that was encoded as the
\* payload segment, whatever base64url characters the segment holds and
\* whatever its length modulo 4.
C20_DecodeReturnsClaims ==
    (fn.op = "_decode_jwt" /\ fn.pc = "done") =>
        Get(fn.output).claims = Some(Get(fn.input).claims)

\* C25: a refresh request carries the raw string of the Credential's current
\* refresh token; once a refresh has rotated it, a later request carries the
\* new string and not the replaced one.
C25_SendsCurrentRefreshToken ==
    \A t \in Threads :
        th[t].pc = "rf_wait" =>
            /\ IsSome(tokens.refresh_token)
            /\ th[t].raw_sent = Get(tokens.refresh_token).raw_token
            /\ th[t].raw_sent = Get(Get(th[t].pre).refresh_token).raw_token

C25_Witness ==
    \E t \in Threads : /\ th[t].pc = "rf_wait"
                       /\ gen = 1
                       /\ Get(th[t].raw_sent).jti = 21
                       /\ th[t].raw_sent = Get(tokens.refresh_token).raw_token

\* C26: the credential POST and the OTP POST carry a CSRF token taken from
\* the page they answer; a TOTP page without one ends the flow in a login
\* error with no OTP POST and without the OTP callback being asked.
C26_PostsCarryCsrf ==
    /\ \A i \in 1..Len(lg.log) :
          lg.log[i].step \in {"credentials", "otp"} => IsSome(lg.log[i].data.csrfmiddlewaretoken)
    /\ (/\ IsSome(lg.resp) /\ Get(lg.resp).to = "credentials"
        /\ ~Get(lg.resp).r.text.invalid_feedback
        /\ Contains(Get(lg.resp).r.url, "/login/totp/")
        /\ IsNone(_extract_csrf(Get(lg.resp).r.text)))
       => (lg.pc = "raised" /\ lg.err = "PrusaAuthError" /\ lg.otp_calls = 0 /\ LastStep # "otp")

\* C27: the outcome of the claims parser is the same for every header and
\* signature segment put around the same payload segment.
C27_OutcomeOfPayloadOnly ==
    (fn.op = "_decode_jwt" /\ fn.pc = "done") =>
        \A h \in {<<97>>, <<126, 126>>}, sig \in {<<"signature">>, <<>>} :
            _decode_jwt([Get(fn.input).token EXCEPT
                            !.header = urlsafe_b64encode_nopad(json_dumps([a |-> h])),
                            !.signature = sig])
            = Get(fn.output)

\* C28: a before_request that refreshed writes the Authorization header only
\* with an access token that passes the 30-second check at that moment.
C28_InjectedTokenValid ==
    [][\A t \in Threads :
          (th[t].pc = "br_write" /\ th'[t].pc = "done")
          => (th[t].validAtCheck \/ _is_token_valid(tokens.access_token, now))]_vars

\* The access token passes the validity check at every instant of the clock.
AlwaysValid(ts) == ts.access_token.expires_at > SKEW + MaxNow

\* C29: a raising persistence callback ends refresh and before_request with
\* that exception and no header written, the Token Set stays the refreshed
\* one, and the next before_request injects it without a refresh request.
C29_SaverFailureKeepsRefreshed ==
    \A t \in Threads :
        /\ th[t].err = "SaverError" =>
              /\ th[t].pc = "raised"
              /\ IsNone(th[t].hdr)
              /\ tokens = Get(th[t].loaded)
              /\ tokens # Get(th[t].pre)
              /\ saveFailed
        /\ (saveFailed /\ gen = 1) => tokens.access_token.token_id > 10
        /\ (/\ saveFailed /\ gen = 1 /\ AlwaysValid(tokens)
            /\ th[t].op = "before_request" /\ th[t].err = "none"
            /\ th[t].pc \in {"br_read", "br_write", "done"}) =>
              /\ th[t].validAtCheck
              /\ th[t].sent = 0
              /\ th[t].pc = "done" => th[t].hdr = Some(Bearer(tokens.access_token.raw_token))

C29_Witness ==
    \E t \in Threads : /\ saveFailed /\ gen = 1
                       /\ th[t].op = "before_request" /\ th[t].pc = "done"
                       /\ th[t].sent = 0
                       /\ th[t].hdr = Some(Bearer(tokens.access_token.raw_token))
                       /\ tokens.access_token.token_id > 10

\* C21: every connection or timeout failure raised while PrusaConnectClient
\* performs a request, in the API call itself or in the token refresh that
\* before_request triggers for it, reaches the caller as PrusaNetworkError,
\* never as another error kind or as the raw transport exception.
C21_TransportFailureIsNetworkError ==
    [][(/\ cl.impl = "sdk"
        /\ cl.phase = "main"
        /\ cl'.pc = "raised"
        /\ \/ cl.pc = "before_request" /\ th["t1"].err = "TransportError"
           \/ cl.pc = "wait" /\ cl'.cause = "TransportError")
       => cl'.err.kind = "PrusaNetworkError"]_vars

\* A method call is entered in this step.
MethodEntry(method) ==
    /\ cl.method = method
    /\ cl.pc \in {"idle", "returned", "raised"}
    /\ cl'.ncalls = cl.ncalls + 1

\* The cache file of the commands exists, parses and is at most cache_ttl old.
FreshValidCommands(c, instant) ==
    /\ c.cache_dir
    /\ c.cache_file.exists
    /\ Age(c.cache_file, instant) <= CacheTtl
    /\ LoadCommands(c.impl, c.cache_file.body).ok

\* C22: get_supported_commands serves the in-memory cache if present, else
\* the cache file if it exists, parses and is at most cache_ttl old (no
\* request is sent and the in-memory cache is filled), else the network: a
\* file that is older or corrupt is never returned, and the list the call
\* then returns comes from exactly one request.
C22_MemoryDiskNetwork ==
    [][/\ MethodEntry("get_supported_commands")
          => IF IsSome(cl.commands_cache)
             THEN /\ cl'.pc = "returned"
                  /\ cl'.result = cl.commands_cache
                  /\ cl'.sent = 0
             ELSE IF FreshValidCommands(cl, now)
             THEN /\ cl'.pc = "returned"
                  /\ cl'.result = Some(LoadCommands(cl.impl, cl.cache_file.body).list)
                  /\ cl'.commands_cache = cl'.result
                  /\ cl'.sent = 0
             ELSE /\ cl'.pc \in {"before_request", "wait"}
                  /\ cl'.result = NoneVal
       /\ (cl.method = "get_supported_commands" /\ cl.pc = "wait" /\ cl'.pc = "returned")
          => (cl'.served = "network" /\ cl'.sent = 1)]_vars

\* The cache file of the printer list exists, is at most cache_ttl old and
\* holds a printer list that parses.
UsablePrinterCache(file, instant) ==
    /\ file.exists
    /\ instant - file.mtime <= CacheTtl
    /\ file.body.kind = "dict"
    /\ file.body.key = "printers"
    /\ \A i \in 1..Len(file.body.items) : file.body.items[i] # "?"

\* The errors the request of the call in flight can end with.
RequestErrors ==
    IF cl.pc = "before_request"
    THEN {Err(th["t1"].err, "before_request")}
    ELSE ({_request(r).err : r \in Responses(cl)} \ {NoErr})
         \cup {NetworkError.err, Err("ValidationError", "Printer")}

\* C23: when the request of get_printers / list_printers fails, the call
\* returns the cached printer list iff cache_dir is set and the cache file
\* exists, parses and is at most cache_ttl old; otherwise it raises the error
\* of the request, not an error about the cache.
C23_FallbackIffUsableCache ==
    [][(/\ cl.method = "get_printers"
        /\ cl.pc \in {"before_request", "wait"}
        /\ cl'.pc \in {"returned", "raised"}
        /\ cl'.e # NoErr)
       => IF cl.cache_dir /\ UsablePrinterCache(cl.cache_file, now)
          THEN /\ cl'.pc = "returned"
               /\ cl'.result = Some(cl.cache_file.body.items)
               /\ cl'.cache_file = cl.cache_file
          ELSE /\ cl'.pc = "raised"
               /\ cl'.err \in RequestErrors
               /\ cl'.err.msg # "Cache expired and network failed."]_vars

\* A second call fails in the transport when the file written by the first
\* is exactly cache_ttl old, and returns the list of that file.
C23_Witness ==
    /\ cl.method = "get_printers"
    /\ cl.ncalls = 2
    /\ cl.pc = "returned"
    /\ cl.served = "disk"
    /\ cl.e.kind = "PrusaNetworkError"
    /\ cl.cause = "none"
    /\ now - cl.cache_file.mtime = CacheTtl
    /\ cl.result = cl.last_ok

\* C24: with cache_dir set, the cache file of the printer list holds the
\* list returned by the most recent successful network call of get_printers,
\* also when that list is empty, so a later failure of the network returns
\* no printer that the last successful call did not report.
C24_CacheHoldsLastSuccess ==
    (/\ cl.impl = "sdk"
     /\ cl.method = "get_printers"
     /\ cl.cache_dir
     /\ IsSome(cl.last_ok)
     /\ ~cl.write_failed)
    => /\ cl.cache_file.exists
       /\ cl.cache_file.body = Json("dict", "printers", Get(cl.last_ok))
       /\ (cl.pc = "returned" /\ cl.served = "disk") => cl.result = cl.last_ok

\* C30: a call of get_supported_commands never returns a command list that
\* lacks a required command, whether the list comes from the network, the
\* in-memory cache or the cache file: such a call raises
\* PrusaCompatibilityError, the first time and every later time.
C30_IncompatibleNeverReturned ==
    /\ (cl.method = "get_supported_commands" /\ cl.pc = "returned")
       => RequiredCommands(cl.impl) \subseteq CommandNames(Get(cl.result))
    /\ (/\ cl.method = "get_supported_commands"
        /\ cl.pc \in {"returned", "raised"}
        /\ IsSome(cl.commands_cache)
        /\ ~(RequiredCommands(cl.impl) \subseteq CommandNames(Get(cl.commands_cache))))
       => (cl.pc = "raised" /\ cl.err.kind = "PrusaCompatibilityError")

====
